---- MODULE Spec2Model ----
(***************************************************************************)
(* A model of process_mods.py: main() fetches the remote mod catalog,      *)
(* decides per entry between reusing the cached hash and downloading the   *)
(* archive again, and writes the status cache, the per-type JSON catalogs  *)
(* and the per-type hash listings.  One run of main() is a sequence of     *)
(* steps (pc); the files on disk and the remote catalog outlive a run.     *)
(***************************************************************************)
EXTENDS Naturals, Sequences, FiniteSets, TLC

\* ------------------------------------------------------------- bounds
\* The longest catalog the remote endpoint serves.
MaxEntries == 2
\* The number of consecutive runs of main().
MaxRuns == 2
\* The longest type name normalized on its own, and how many of them.
MaxNameLen == 3
MaxNormalized == 4

\* ------------------------------------------------------- JSON scalars
\* A JSON scalar is a kind and its text: str(v) is the text, and an integer
\* and a string with the same text are different values with the same str().
None == [t |-> "null", s |-> "None"]
IntV(s) == [t |-> "int", s |-> s]
StrV(s) == [t |-> "str", s |-> s]

\* Python truthiness of a scalar, as `not x` reads it.
Truthy(v) ==
    /\ v.t # "null"
    /\ ~(v.t = "str" /\ v.s = "")
    /\ ~(v.t = "int" /\ v.s = "0")

\* str(attachment_id), and the "{mod_id}" of an f-string.
Str(v) == v.s

\* ------------------------------------------------------------- inputs
\* Type names are sequences of characters.
TypeNames == { <<"p", "s">>, <<"p">>, <<"s", "s">> }
ModIds == { None, StrV("m1"), StrV("m2") }
AttachmentIds == { None, IntV("1"), StrV("1"), StrV("2") }
Timestamps == { StrV("t1"), StrV("t2") }
\* The bytes the archive endpoint may answer with.
Archives == { "zipA", "zipB" }

\* item['data'] and item['attachment_data'], flattened.
AllItems == [type : TypeNames, id : ModIds, attachment_id : AttachmentIds,
             timestamp : Timestamps]
\* Of an entry with a field missing only the type varies: the code reads
\* nothing else of it once line 61 has skipped it.
Items == { i \in AllItems :
            \/ i.id # None /\ i.attachment_id # None
            \/ /\ i.id = None \/ i.attachment_id = None
               /\ i.id \in {None, StrV("m1")}
               /\ i.attachment_id \in {None, StrV("1")}
               /\ i.timestamp = StrV("t1") }

\* A catalog is the ordered mapping the endpoint returns: entry i has key i.
CatalogOf(f) == [i \in DOMAIN f |-> [key |-> i, item |-> f[i]]]
Catalogs == UNION { { CatalogOf(f) : f \in [1..n -> Items] } : n \in 0..MaxEntries }

\* -------------------------------------------------------- dictionaries
EmptyDict == [x \in {} |-> x]
Put(d, k, v) == [x \in (DOMAIN d) \cup {k} |-> IF x = k THEN v ELSE d[x]]
\* dict.get(k): None when the key is absent.
NoEntry == [absent |-> TRUE]
Get(d, k) == IF k \in DOMAIN d THEN d[k] ELSE NoEntry

\* calculate_md5: the digest of a file's bytes.
calculate_md5(bytes) ==
    CASE bytes = "zipA" -> "md5A"
      [] bytes = "zipB" -> "md5B"

\* Mutant of get_singular_name: every trailing "s" is dropped.
RECURSIVE get_singular_name_StripAll(_)
get_singular_name_StripAll(type_name) ==
    IF Len(type_name) > 0 /\ type_name[Len(type_name)] = "s"
    THEN get_singular_name_StripAll(SubSeq(type_name, 1, Len(type_name) - 1))
    ELSE type_name

\* get_singular_name: drop one trailing "s".
get_singular_name(type_name) ==
    IF Len(type_name) > 0 /\ type_name[Len(type_name)] = "s"
    THEN SubSeq(type_name, 1, Len(type_name) - 1)
    ELSE type_name

VARIABLES
    remote,         \* the catalog the remote endpoint serves
    changed,        \* the catalog was edited since the last fetch
    cache_file,     \* status_cache.json: [exists, data]
    json_files,     \* <type>.json: type name -> bucket
    hash_files,     \* <type>_hash.txt: type name -> lines
    zip_files,      \* the <attachment id>.zip files in the working directory
    pc,             \* where main() stands
    run,            \* runs of main() started so far
    mod_list,       \* main's locals
    status_cache,
    type_buckets,
    hash_buckets,
    updates_made,
    idx,            \* position of the for loop in mod_list
    log,            \* per entry of this run: what was seen and done
    wrote,          \* the files this run has written
    prev,           \* the previous run: its catalog, log and outputs
    singular        \* get_singular_name's results: type name -> singular name

progVars == << remote, changed, cache_file, json_files, hash_files, zip_files, pc,
           run, mod_list, status_cache, type_buckets, hash_buckets,
           updates_made, idx, log, wrote, prev >>
vars == << progVars, singular >>

NoWrites == [cache |-> FALSE, json |-> {}, hash |-> {}]
NoPrev == [ran |-> FALSE, list |-> <<>>, log |-> <<>>,
           json |-> EmptyDict, hash |-> EmptyDict]

Init ==
    /\ remote \in Catalogs
    /\ changed = FALSE
    /\ cache_file = [exists |-> FALSE, data |-> EmptyDict]
    /\ json_files = EmptyDict
    /\ hash_files = EmptyDict
    /\ zip_files = EmptyDict
    /\ pc = "idle"
    /\ run = 0
    /\ mod_list = <<>>
    /\ status_cache = EmptyDict
    /\ type_buckets = EmptyDict
    /\ hash_buckets = EmptyDict
    /\ updates_made = FALSE
    /\ idx = 1
    /\ log = <<>>
    /\ wrote = NoWrites
    /\ prev = NoPrev
    /\ singular = EmptyDict

\* ------------------------------------------------ the code's decisions
\* Mutant of IsValid: only the mod id is looked at.
IsValid_IdOnly(item) == Truthy(item.id)

\* Line 61: the entry has a mod id and an attachment id.
IsValid(item) == Truthy(item.id) /\ Truthy(item.attachment_id)

\* Lines 67-69: a new type gets an empty bucket.
InitBucket(buckets, singular_type) ==
    IF singular_type \in DOMAIN buckets
    THEN buckets
    ELSE Put(buckets, singular_type, <<>>)

\* d[key] = item on an ordered dict: replace in place, or add at the end.
SetKey(bucket, key, item) ==
    IF \E j \in DOMAIN bucket : bucket[j].key = key
    THEN [j \in DOMAIN bucket |->
            IF bucket[j].key = key THEN [key |-> key, item |-> item] ELSE bucket[j]]
    ELSE Append(bucket, [key |-> key, item |-> item])

\* Mutants of AddToBucket: the entry is not added; the bucket is replaced by
\* the entry; the entry is added to every bucket.
AddToBucket_Skip(buckets, singular_type, key, item) == buckets
AddToBucket_Overwrite(buckets, singular_type, key, item) ==
    [buckets EXCEPT ![singular_type] = << [key |-> key, item |-> item] >>]
AddToBucket_All(buckets, singular_type, key, item) ==
    [t \in DOMAIN buckets |-> SetKey(buckets[t], key, item)]

\* Line 72: type_buckets[singular_type][key] = item.
AddToBucket(buckets, singular_type, key, item) ==
    [buckets EXCEPT ![singular_type] = SetKey(@, key, item)]

\* Mutants of NeedsDownload: every entry is downloaded; only an entry
\* without a cache record is.
NeedsDownload_Always(cache_entry, timestamp) == TRUE
NeedsDownload_NewOnly(cache_entry, timestamp) == cache_entry = NoEntry

\* Line 80: no cache record, or one with another timestamp.
NeedsDownload(cache_entry, timestamp) ==
    \/ cache_entry = NoEntry
    \/ cache_entry.timestamp # timestamp

\* Line 84: the archive's file name.
ZipName(attachment_id) == << Str(attachment_id), ".zip" >>

\* Line 100: os.remove(zip_filename).
RemoveZip(files, name) == [n \in (DOMAIN files) \ {name} |-> files[n]]

\* Mutant of CleanupOnError: the handler leaves the archive.
CleanupOnError_Keep(files, name) == files

\* Lines 115-116: the handler removes the archive if it exists.
CleanupOnError(files, name) ==
    IF name \in DOMAIN files THEN RemoveZip(files, name) ELSE files

\* Mutant of UpdateCache: the new record replaces the whole mapping.
UpdateCache_OnlyThis(cache, attachment_id, timestamp, md5, mod_id) ==
    Put(EmptyDict, Str(attachment_id),
        [timestamp |-> timestamp, md5 |-> md5, id |-> mod_id])

\* Mutant of UpdateCache: the record is stored under the mod id.
UpdateCache_KeyByModId(cache, attachment_id, timestamp, md5, mod_id) ==
    Put(cache, Str(mod_id),
        [timestamp |-> timestamp, md5 |-> md5, id |-> mod_id])

\* Mutant of UpdateCache: the record is stored without the timestamp.
UpdateCache_NoTimestamp(cache, attachment_id, timestamp, md5, mod_id) ==
    Put(cache, Str(attachment_id),
        [timestamp |-> None, md5 |-> md5, id |-> mod_id])

\* Lines 103-107: the record stored after a download.
UpdateCache(cache, attachment_id, timestamp, md5, mod_id) ==
    Put(cache, Str(attachment_id),
        [timestamp |-> timestamp, md5 |-> md5, id |-> mod_id])

\* Line 77: current_md5 = None, read by `if current_md5`.
NoMd5 == ""

\* Line 124: the hash line "<md5> <id>".
HashLine(md5, mod_id) == << md5, Str(mod_id) >>

\* Mutant of AppendHash: the line is put first.
AppendHash_Prepend(buckets, singular_type, md5, mod_id) ==
    IF md5 # NoMd5
    THEN [buckets EXCEPT ![singular_type] = << HashLine(md5, mod_id) >> \o @]
    ELSE buckets

\* Lines 123-124: a line is appended when a hash is at hand.
AppendHash(buckets, singular_type, md5, mod_id) ==
    IF md5 # NoMd5
    THEN [buckets EXCEPT ![singular_type] = Append(@, HashLine(md5, mod_id))]
    ELSE buckets

\* Mutant of ShouldSaveCache: the cache is saved by every run.
ShouldSaveCache_Always(updates) == TRUE

\* Line 129: the cache is saved when a download succeeded.
ShouldSaveCache(updates) == updates

\* Mutant of WriteFiles: a bucket with nothing in it writes no file.
WriteFiles_SkipEmpty(files, buckets) ==
    [t \in (DOMAIN files) \cup { u \in DOMAIN buckets : buckets[u] # <<>> } |->
        IF t \in DOMAIN buckets /\ buckets[t] # <<>> THEN buckets[t] ELSE files[t]]

\* Lines 137-140 and 144-147: every bucket overwrites its file.
WriteFiles(files, buckets) ==
    [t \in (DOMAIN files) \cup (DOMAIN buckets) |->
        IF t \in DOMAIN buckets THEN buckets[t] ELSE files[t]]

\* ---------------------------------------------------------- the steps
CanStart == pc \in {"idle", "done", "aborted"} /\ run < MaxRuns

\* What a starting run remembers of the run before it.
Remember ==
    IF pc = "done"
    THEN [ran |-> TRUE, list |-> mod_list, log |-> log,
          json |-> json_files, hash |-> hash_files]
    ELSE NoPrev

ResetLocals ==
    /\ status_cache' = EmptyDict
    /\ type_buckets' = EmptyDict
    /\ hash_buckets' = EmptyDict
    /\ updates_made' = FALSE
    /\ idx' = 1
    /\ log' = <<>>
    /\ wrote' = NoWrites
    /\ prev' = Remember

\* Mutant of FetchFail: the failed run goes on to save an empty cache.
FetchFail_SavesEmptyCache ==
    /\ CanStart
    /\ run' = run + 1
    /\ pc' = "aborted"
    /\ mod_list' = <<>>
    /\ ResetLocals
    /\ cache_file' = [exists |-> TRUE, data |-> EmptyDict]
    /\ UNCHANGED << remote, changed, json_files, hash_files, zip_files >>
    /\ UNCHANGED singular

\* Lines 27-33: the catalog cannot be fetched or parsed; main returns.
FetchFail ==
    /\ CanStart
    /\ run' = run + 1
    /\ pc' = "aborted"
    /\ mod_list' = <<>>
    /\ ResetLocals
    /\ UNCHANGED << remote, changed, cache_file, json_files, hash_files, zip_files >>
    /\ UNCHANGED singular

\* Lines 27-30: the catalog is fetched.
FetchOK ==
    /\ CanStart
    /\ run' = run + 1
    /\ pc' = "load"
    /\ mod_list' = remote
    /\ changed' = FALSE
    /\ ResetLocals
    /\ UNCHANGED << remote, cache_file, json_files, hash_files, zip_files >>
    /\ UNCHANGED singular

\* Lines 36-48: the cache is read, the buckets start empty.
LoadCache ==
    /\ pc = "load"
    /\ status_cache' = IF cache_file.exists THEN cache_file.data ELSE EmptyDict
    /\ type_buckets' = EmptyDict
    /\ hash_buckets' = EmptyDict
    /\ updates_made' = FALSE
    /\ pc' = "loop"
    /\ UNCHANGED << remote, changed, cache_file, json_files, hash_files, zip_files,
                    run, mod_list, idx, log, wrote, prev >>
    /\ UNCHANGED singular

LogEntry(valid, seen, md5, exit) ==
    [valid |-> valid, seen |-> seen, calls |-> 0, bytes |-> "", md5 |-> md5,
     exit |-> exit]

\* Mutant of LineModId: the line of a hit names the id of the cache record.
LineModId_FromCache(mod_id, cache_entry) == cache_entry.id

\* Lines 56 and 124: the line of a hit names the entry's mod_id; the cache
\* record's "id" is not read.
LineModId(mod_id, cache_entry) == mod_id

\* Lines 50-85 and 118-124: one entry up to the download, or through the hit.
BeginEntry ==
    /\ pc = "loop"
    /\ idx <= Len(mod_list)
    /\ LET key == mod_list[idx].key
           item == mod_list[idx].item
           mod_type == item.type
           mod_id == item.id
           attachment_id == item.attachment_id
           timestamp == item.timestamp
           singular_type == get_singular_name(mod_type)
           cache_entry == Get(status_cache, Str(attachment_id))
       IN  IF ~IsValid(item)
           THEN /\ log' = Append(log, LogEntry(FALSE, NoEntry, NoMd5, "skipped"))
                /\ idx' = idx + 1
                /\ UNCHANGED << pc, type_buckets, hash_buckets >>
           ELSE /\ type_buckets' =
                      AddToBucket(InitBucket(type_buckets, singular_type),
                                  singular_type, key, item)
                /\ IF NeedsDownload(cache_entry, timestamp)
                   THEN /\ hash_buckets' = InitBucket(hash_buckets, singular_type)
                        /\ log' = Append(log, LogEntry(TRUE, cache_entry, NoMd5, "pending"))
                        /\ pc' = "request"
                        /\ idx' = idx
                   ELSE /\ hash_buckets' =
                              AppendHash(InitBucket(hash_buckets, singular_type),
                                         singular_type, cache_entry.md5,
                                         LineModId(mod_id, cache_entry))
                        /\ log' = Append(log, LogEntry(TRUE, cache_entry,
                                                       cache_entry.md5, "hit"))
                        /\ pc' = "loop"
                        /\ idx' = idx + 1
    /\ UNCHANGED << remote, changed, cache_file, json_files, hash_files, zip_files,
                    run, mod_list, status_cache, updates_made, wrote, prev >>
    /\ UNCHANGED singular

\* The `continue` of lines 112 and 117: on to the next entry.
Continue(exit) ==
    /\ log' = [log EXCEPT ![idx].exit = exit, ![idx].bytes = ""]
    /\ idx' = idx + 1
    /\ pc' = "loop"

Called == [log EXCEPT ![idx].calls = @ + 1]

\* Mutants of OnBadStatus: the failed attempt is recorded in the cache; the
\* stale cached hash is listed.
OnBadStatus_RecordsAttempt ==
    /\ status_cache' = UpdateCache(status_cache, mod_list[idx].item.attachment_id,
                                   mod_list[idx].item.timestamp, NoMd5,
                                   mod_list[idx].item.id)
    /\ updates_made' = TRUE
    /\ UNCHANGED hash_buckets
OnBadStatus_ListsStaleHash ==
    /\ hash_buckets' =
          IF log[idx].seen # NoEntry
          THEN AppendHash(hash_buckets,
                          get_singular_name(mod_list[idx].item.type),
                          log[idx].seen.md5, mod_list[idx].item.id)
          ELSE hash_buckets
    /\ UNCHANGED << status_cache, updates_made >>

\* Lines 109-112: a status other than 200 is printed, and nothing else.
OnBadStatus == UNCHANGED << status_cache, updates_made, hash_buckets >>

\* Lines 89-91 with 109-117: the request for the archive.
Download ==
    /\ pc = "request"
    /\ LET zip_filename == ZipName(mod_list[idx].item.attachment_id)
       IN  \/ \* requests.get raises
              /\ zip_files' = CleanupOnError(zip_files, zip_filename)
              /\ log' = [Called EXCEPT ![idx].exit = "exception"]
              /\ idx' = idx + 1
              /\ pc' = "loop"
              /\ UNCHANGED << status_cache, updates_made, hash_buckets >>
           \/ \* a status other than 200
              /\ OnBadStatus
              /\ zip_files' = zip_files
              /\ log' = [Called EXCEPT ![idx].exit = "status"]
              /\ idx' = idx + 1
              /\ pc' = "loop"
           \/ \* 200: the archive file is opened for writing
              /\ zip_files' = Put(zip_files, zip_filename, "")
              /\ log' = Called
              /\ idx' = idx
              /\ pc' = "stream"
              /\ UNCHANGED << status_cache, updates_made, hash_buckets >>
    /\ UNCHANGED << remote, changed, cache_file, json_files, hash_files, run,
                    mod_list, type_buckets, wrote, prev >>
    /\ UNCHANGED singular

\* Lines 92-93 with 113-117: the body is streamed into the file.
Stream ==
    /\ pc = "stream"
    /\ LET zip_filename == ZipName(mod_list[idx].item.attachment_id)
       IN  \/ \* iter_content or write raises
              /\ zip_files' = CleanupOnError(zip_files, zip_filename)
              /\ Continue("exception")
           \/ \E bytes \in Archives :
              /\ zip_files' = Put(zip_files, zip_filename, bytes)
              /\ log' = [log EXCEPT ![idx].bytes = bytes]
              /\ idx' = idx
              /\ pc' = "hash"
    /\ UNCHANGED << remote, changed, cache_file, json_files, hash_files, run,
                    mod_list, status_cache, type_buckets, hash_buckets,
                    updates_made, wrote, prev >>
    /\ UNCHANGED singular

\* Lines 96-108 and 122-124 with 113-117: hash, delete, record, list.
Hash ==
    /\ pc = "hash"
    /\ LET item == mod_list[idx].item
           zip_filename == ZipName(item.attachment_id)
           singular_type == get_singular_name(item.type)
           current_md5 == calculate_md5(zip_files[zip_filename])
       IN  \/ \* calculate_md5 raises
              /\ zip_files' = CleanupOnError(zip_files, zip_filename)
              /\ Continue("exception")
              /\ UNCHANGED << status_cache, updates_made, hash_buckets >>
           \/ /\ zip_files' = RemoveZip(zip_files, zip_filename)
              /\ status_cache' = UpdateCache(status_cache, item.attachment_id,
                                             item.timestamp, current_md5, item.id)
              /\ updates_made' = TRUE
              /\ hash_buckets' = AppendHash(hash_buckets, singular_type,
                                            current_md5, item.id)
              /\ log' = [log EXCEPT ![idx].exit = "downloaded",
                                    ![idx].md5 = current_md5]
              /\ idx' = idx + 1
              /\ pc' = "loop"
    /\ UNCHANGED << remote, changed, cache_file, json_files, hash_files, run,
                    mod_list, type_buckets, wrote, prev >>
    /\ UNCHANGED singular

\* Lines 129-134: after the loop, the cache file.
SaveCache ==
    /\ pc = "loop"
    /\ idx > Len(mod_list)
    /\ IF ShouldSaveCache(updates_made)
       THEN /\ cache_file' = [exists |-> TRUE, data |-> status_cache]
            /\ wrote' = [wrote EXCEPT !.cache = TRUE]
       ELSE UNCHANGED << cache_file, wrote >>
    /\ pc' = "save_json"
    /\ UNCHANGED << remote, changed, json_files, hash_files, zip_files, run,
                    mod_list, status_cache, type_buckets, hash_buckets,
                    updates_made, idx, log, prev >>
    /\ UNCHANGED singular

\* Lines 137-141: the per-type JSON files.
SaveJson ==
    /\ pc = "save_json"
    /\ json_files' = WriteFiles(json_files, type_buckets)
    /\ wrote' = [wrote EXCEPT !.json = DOMAIN type_buckets]
    /\ pc' = "save_hash"
    /\ UNCHANGED << remote, changed, cache_file, hash_files, zip_files, run,
                    mod_list, status_cache, type_buckets, hash_buckets,
                    updates_made, idx, log, prev >>
    /\ UNCHANGED singular

\* Lines 144-148: the per-type hash files.
SaveHash ==
    /\ pc = "save_hash"
    /\ hash_files' = WriteFiles(hash_files, hash_buckets)
    /\ wrote' = [wrote EXCEPT !.hash = DOMAIN hash_buckets]
    /\ pc' = "done"
    /\ UNCHANGED << remote, changed, cache_file, json_files, zip_files, run,
                    mod_list, status_cache, type_buckets, hash_buckets,
                    updates_made, idx, log, prev >>
    /\ UNCHANGED singular

\* ---------------------------------------------------- the environment
OtherTimestamp(ts) == CHOOSE t \in Timestamps : t # ts

\* Between two runs the publisher re-uploads one entry (a new timestamp).
Touch ==
    /\ pc = "done" /\ run < MaxRuns /\ ~changed
    /\ \E i \in DOMAIN remote :
          remote' = [remote EXCEPT ![i].item.timestamp = OtherTimestamp(@)]
    /\ changed' = TRUE
    /\ UNCHANGED << cache_file, json_files, hash_files, zip_files, pc, run,
                    mod_list, status_cache, type_buckets, hash_buckets,
                    updates_made, idx, log, wrote, prev >>
    /\ UNCHANGED singular

\* Between two runs the publisher withdraws one entry.
Withdraw ==
    /\ pc = "done" /\ run < MaxRuns /\ ~changed
    /\ \E i \in DOMAIN remote :
          remote' = [j \in 1..(Len(remote) - 1) |->
                        IF j < i THEN remote[j] ELSE remote[j + 1]]
    /\ changed' = TRUE
    /\ UNCHANGED << cache_file, json_files, hash_files, zip_files, pc, run,
                    mod_list, status_cache, type_buckets, hash_buckets,
                    updates_made, idx, log, wrote, prev >>
    /\ UNCHANGED singular

Next ==
    \/ FetchFail
    \/ FetchOK
    \/ LoadCache
    \/ BeginEntry
    \/ Download
    \/ Stream
    \/ Hash
    \/ SaveCache
    \/ SaveJson
    \/ SaveHash
    \/ Touch
    \/ Withdraw

Spec == Init /\ [][Next]_vars

\* ------------------------------------------------------------ reading
Fails == {"status", "exception"}
ItemAt(i) == mod_list[i].item
Sing(i) == get_singular_name(ItemAt(i).type)
AttKey(i) == Str(ItemAt(i).attachment_id)
EntryAt(i) == [key |-> mod_list[i].key, item |-> ItemAt(i)]
Range(seq) == { seq[j] : j \in DOMAIN seq }
KeysOf(bucket) == { bucket[j].key : j \in DOMAIN bucket }
RunOver == pc \in {"done", "aborted"}

\* The entry found, when it was looked up, a cache record with its timestamp.
SawSameTimestamp(i) ==
    /\ log[i].valid
    /\ log[i].seen # NoEntry
    /\ log[i].seen.timestamp = ItemAt(i).timestamp

\* The entry found no cache record, or one with another timestamp.
SawNoneOrOther(i) ==
    /\ log[i].valid
    /\ \/ log[i].seen = NoEntry
       \/ log[i].seen.timestamp # ItemAt(i).timestamp

\* -------------------------------------------------------------- C1
\* Two complete runs on the same catalog, the second now over.
TwoRuns == pc = "done" /\ prev.ran /\ mod_list = prev.list

NoFailure(l) == \A i \in DOMAIN l : l[i].exit \notin Fails
Served(list, l) ==
    { << Str(list[i].item.attachment_id), l[i].bytes >> :
        i \in { j \in DOMAIN l : l[j].exit = "downloaded" } }
\* The archive endpoint answered every request of both runs with success, and
\* an attachment id always with the same bytes.
EndpointSteady ==
    /\ NoFailure(prev.log)
    /\ NoFailure(log)
    /\ \A x, y \in Served(prev.list, prev.log) \cup Served(mod_list, log) :
          x[1] = y[1] => x[2] = y[2]

SecondRunIdle ==
    /\ \A i \in DOMAIN log : log[i].calls = 0
    /\ ~wrote.cache
    /\ json_files = prev.json
    /\ hash_files = prev.hash

\* Valid entries that share an attachment id (as a string) share a timestamp.
TimestampsAgree(list) ==
    \A i, j \in DOMAIN list :
        ( /\ IsValid(list[i].item)
          /\ IsValid(list[j].item)
          /\ Str(list[i].item.attachment_id) = Str(list[j].item.attachment_id) )
        => list[i].item.timestamp = list[j].item.timestamp

\* C1 as stated: for every catalog, a second run on the unchanged catalog,
\* from the cache the first run left and with a steady archive endpoint,
\* downloads nothing, leaves the cache file unwritten and writes the same
\* per-type files.
C1_Original == (TwoRuns /\ EndpointSteady) => SecondRunIdle

\* C1 amended: the same, for every catalog whose valid entries sharing an
\* attachment id carry equal timestamps.
C1_Idempotent ==
    (TwoRuns /\ EndpointSteady /\ TimestampsAgree(mod_list)) => SecondRunIdle

\* Two runs on a catalog of two valid entries, the first run having
\* downloaded and written the cache, the second one reusing it.
C1_Witness ==
    /\ TwoRuns /\ EndpointSteady /\ TimestampsAgree(mod_list)
    /\ Len(mod_list) = 2
    /\ \A i \in DOMAIN log : log[i].exit = "hit"
    /\ \E i \in DOMAIN prev.log : prev.log[i].exit = "downloaded"
    /\ cache_file.exists

\* -------------------------------------------------------------- C2
\* C2 as stated: an entry whose download failed is in no type bucket and its
\* key is in no <type>.json written by the run.
C2_Original ==
    \A i \in DOMAIN log :
        log[i].exit \in Fails =>
            /\ \A t \in DOMAIN type_buckets :
                  mod_list[i].key \notin KeysOf(type_buckets[t])
            /\ pc = "done" =>
                  \A t \in wrote.json : mod_list[i].key \notin KeysOf(json_files[t])

\* C2 amended: an entry whose download failed was bucketed before the
\* download: its record is in the bucket of its normalized type, and in the
\* <type>.json the run writes.
C2_FailedStillBucketed ==
    \A i \in DOMAIN log :
        log[i].exit \in Fails =>
            /\ Sing(i) \in DOMAIN type_buckets
            /\ EntryAt(i) \in Range(type_buckets[Sing(i)])
            /\ pc = "done" =>
                  /\ Sing(i) \in wrote.json
                  /\ EntryAt(i) \in Range(json_files[Sing(i)])

\* A finished run in which a download failed on its status and another on
\* an exception.
C2_Witness ==
    /\ pc = "done"
    /\ \E i, j \in DOMAIN log :
          log[i].exit = "status" /\ log[j].exit = "exception"

\* -------------------------------------------------------------- C3
\* C3: an entry that found a cache record with its own timestamp makes no
\* request to the archive endpoint, and the hash it contributes is the
\* cached one.
C3_HitNeverDownloads ==
    \A i \in DOMAIN log :
        SawSameTimestamp(i) =>
            /\ log[i].calls = 0
            /\ log[i].exit = "hit"
            /\ HashLine(log[i].seen.md5, ItemAt(i).id) \in Range(hash_buckets[Sing(i)])

\* A second run hits the record the first run stored.
C3_Witness ==
    /\ run = 2
    /\ RunOver
    /\ \E i \in DOMAIN log : SawSameTimestamp(i) /\ log[i].seen.md5 = "md5B"

\* -------------------------------------------------------------- C4
\* C4: an entry that found no cache record, or one with another timestamp,
\* makes exactly one request to the archive endpoint: one once it is
\* processed, and never more than one.
C4_MissDownloadsOnce ==
    \A i \in DOMAIN log :
        SawNoneOrOther(i) =>
            IF log[i].exit = "pending" /\ pc = "request"
            THEN log[i].calls = 0
            ELSE log[i].calls = 1

\* A run over, in which one entry found no record and failed, and another
\* found a record with another timestamp.
C4_Witness ==
    /\ RunOver
    /\ \E i, j \in DOMAIN log :
          /\ SawNoneOrOther(i) /\ log[i].seen = NoEntry /\ log[i].exit \in Fails
          /\ SawNoneOrOther(j) /\ log[j].seen # NoEntry
          /\ log[j].seen.timestamp = StrV("t2")
          /\ ItemAt(j).timestamp = StrV("t1")

\* -------------------------------------------------------------- C5
\* C5: once the loop is over, the run has written the cache file if and only
\* if one of its entries was downloaded; before, it has not written it.
C5_CacheWrittenIffDownloaded ==
    IF pc \in {"save_json", "save_hash", "done"}
    THEN wrote.cache <=> (\E i \in DOMAIN log : log[i].exit = "downloaded")
    ELSE ~wrote.cache

\* A run of hits, skips and failures only, on an existing cache file that
\* it leaves unwritten.
C5_Witness ==
    /\ pc = "done"
    /\ cache_file.exists
    /\ ~wrote.cache
    /\ \E i, j \in DOMAIN log : log[i].exit = "hit" /\ log[j].exit \in Fails

\* -------------------------------------------------------------- C6
\* C6: every step of a download other than its successful end leaves the
\* cache mapping, the 'updates made' flag and the cache file as they were.
C6_FailureLeavesCache ==
    [][ (pc \in {"request", "stream", "hash"} /\ log'[idx].exit # "downloaded")
        => /\ status_cache' = status_cache
           /\ updates_made' = updates_made
           /\ cache_file' = cache_file ]_vars

\* A failed download of an entry that had a stale record, still there.
C6_Witness ==
    \E i \in DOMAIN log :
        /\ log[i].exit \in Fails
        /\ log[i].seen # NoEntry
        /\ log[i].seen.timestamp # ItemAt(i).timestamp
        /\ Get(status_cache, AttKey(i)) = log[i].seen
        /\ ~updates_made

\* -------------------------------------------------------------- C7
Contributes(i) == log[i].exit \in {"hit", "downloaded"}
\* The hash at hand for an entry: the cached one, or the digest of the bytes.
HashAtHand(i) ==
    IF log[i].exit = "hit" THEN log[i].seen.md5 ELSE calculate_md5(log[i].bytes)

\* C7: every hash line of a type bucket is the line of an entry of that type
\* with a cache hit or a successful download, carrying that hash, and there
\* are no more lines than such entries: a failed download adds none.
C7_HashLineOnlyWithHash ==
    \A t \in DOMAIN hash_buckets :
        /\ \A k \in DOMAIN hash_buckets[t] :
              \E i \in DOMAIN log :
                  /\ Contributes(i)
                  /\ Sing(i) = t
                  /\ hash_buckets[t][k] = HashLine(HashAtHand(i), ItemAt(i).id)
        /\ Len(hash_buckets[t]) <=
              Cardinality({ i \in DOMAIN log : Contributes(i) /\ Sing(i) = t })

\* A failed download of an entry with a stale record, and no hash line in
\* its bucket, beside an entry that contributed one.
C7_Witness ==
    /\ pc = "loop"
    /\ \E i \in DOMAIN log :
          /\ log[i].exit \in Fails
          /\ log[i].seen # NoEntry
          /\ hash_buckets[Sing(i)] = <<>>
    /\ \E j \in DOMAIN log : Contributes(j)

\* -------------------------------------------------------------- C8
\* C8: a type bucket never holds more hash lines than JSON entries, and
\* neither do the two files a finished run wrote for a type.
C8_HashLinesAtMostEntries ==
    /\ DOMAIN hash_buckets \subseteq DOMAIN type_buckets
    /\ \A t \in DOMAIN hash_buckets :
          Len(hash_buckets[t]) <= Len(type_buckets[t])
    /\ pc = "done" =>
          \A t \in wrote.hash :
              /\ t \in DOMAIN json_files
              /\ Len(hash_files[t]) <= Len(json_files[t])

\* A finished run wrote a type with two entries and one hash line.
C8_Witness ==
    /\ pc = "done"
    /\ \E t \in wrote.hash :
          Len(hash_files[t]) = 1 /\ Len(json_files[t]) = 2

\* -------------------------------------------------------------- C9
\* The bucket invariant, of the buckets in memory or of the files written.
Partitioned(buckets, types) ==
    /\ \A t \in types :
          \A k \in DOMAIN buckets[t] :
              \E i \in DOMAIN mod_list :
                  /\ buckets[t][k] = EntryAt(i)
                  /\ Sing(i) = t
    /\ \A t, u \in types :
          t # u => KeysOf(buckets[t]) \cap KeysOf(buckets[u]) = {}

\* C9: the keys of every type bucket are keys of the catalog, every bucketed
\* entry is in the bucket of its own normalized type, and no key is in two
\* buckets; the same holds of the JSON files a finished run wrote.
C9_BucketsPartitionCatalog ==
    /\ Partitioned(type_buckets, DOMAIN type_buckets)
    /\ pc \in {"save_hash", "done"} => Partitioned(json_files, wrote.json)

\* A finished run wrote two JSON files, one entry in each.
C9_Witness ==
    /\ pc = "done"
    /\ Cardinality(wrote.json) = 2
    /\ \E i, j \in DOMAIN mod_list :
          /\ Sing(i) # Sing(j)
          /\ json_files[Sing(i)] = << EntryAt(i) >>
          /\ json_files[Sing(j)] = << EntryAt(j) >>

\* ------------------------------------------------------------- C10
\* C10: an archive file exists only while its entry is being streamed or
\* hashed, and then it is that entry's: none is left when the next entry
\* starts or when the run ends.
C10_ZipRemoved ==
    IF pc \in {"stream", "hash"}
    THEN DOMAIN zip_files = { ZipName(ItemAt(idx).attachment_id) }
    ELSE zip_files = EmptyDict

\* The loop goes on after a success, a failed status, and an exception.
C10_Witness ==
    /\ pc = "loop"
    /\ run = 2
    /\ \E i \in DOMAIN log : log[i].exit = "exception" /\ log[i].calls = 1
    /\ \E i \in DOMAIN prev.log : prev.log[i].exit = "downloaded"
    /\ \E i \in DOMAIN prev.log : prev.log[i].exit = "status"

\* ------------------------------------------------------------- C11
\* C11: the step in which the catalog cannot be fetched or parsed ends the
\* run: it leaves the cache file, every JSON file, every hash file and the
\* working directory as they were, and the run has made no request and
\* written nothing.
C11_FetchFailureWritesNothing ==
    [][ pc' = "aborted"
        => /\ cache_file' = cache_file
           /\ json_files' = json_files
           /\ hash_files' = hash_files
           /\ zip_files' = zip_files
           /\ log' = <<>>
           /\ wrote' = NoWrites ]_vars

\* A run aborted after a complete run that left its files.
C11_Witness ==
    /\ pc = "aborted"
    /\ run = 2
    /\ cache_file.exists
    /\ json_files # EmptyDict
    /\ \E t \in DOMAIN hash_files : hash_files[t] # <<>>

\* ------------------------------------------------------------- C12
\* The entry has no mod id or no attachment id (.get gave None).
MissingField(item) == item.id = None \/ item.attachment_id = None

\* C12: the step that processes an entry without a mod id or without an
\* attachment id adds it to no JSON bucket, adds no hash line, creates no
\* bucket, changes no cache record and no file, and goes on to the next
\* entry without a request.
C12_MalformedEntryOmitted ==
    [][ ( /\ pc = "loop"
          /\ idx <= Len(mod_list)
          /\ MissingField(mod_list[idx].item) )
        => /\ type_buckets' = type_buckets
           /\ hash_buckets' = hash_buckets
           /\ status_cache' = status_cache
           /\ updates_made' = updates_made
           /\ cache_file' = cache_file
           /\ zip_files' = zip_files
           /\ pc' = "loop"
           /\ idx' = idx + 1
           /\ log'[idx].calls = 0 ]_vars

\* A finished run skipped an entry whose type no other entry has, beside a
\* valid entry: the skipped entry's type has no file.
C12_Witness ==
    /\ pc = "done"
    /\ \E i, j \in DOMAIN log :
          /\ MissingField(ItemAt(i))
          /\ log[i].exit = "skipped"
          /\ Sing(i) \notin DOMAIN json_files
          /\ Sing(i) \notin DOMAIN hash_files
          /\ log[j].exit = "downloaded"

\* ------------------------------------------------------------- C13
\* A download of this run succeeded for the attachment id.
DownloadedThisRun(k) ==
    \E i \in DOMAIN log : log[i].exit = "downloaded" /\ AttKey(i) = k

\* C13: no step removes the cache file or a record of it, and a record of
\* it changes only in a run that downloaded its attachment id with success,
\* whether the catalog still has that attachment id or not.
C13_CacheRecordsKept ==
    [][ cache_file.exists
        => /\ cache_file'.exists
           /\ \A k \in DOMAIN cache_file.data :
                 /\ k \in DOMAIN cache_file'.data
                 /\ cache_file'.data[k] # cache_file.data[k]
                       => DownloadedThisRun(k) ]_vars

\* A second run rewrote the cache file for one attachment id and kept the
\* record of another that its catalog no longer has.
C13_Witness ==
    /\ pc = "done"
    /\ run = 2
    /\ wrote.cache
    /\ \E k \in DOMAIN cache_file.data :
          /\ \A i \in DOMAIN mod_list : AttKey(i) # k
          /\ \E i \in DOMAIN prev.log :
                /\ prev.log[i].exit = "downloaded"
                /\ Str(prev.list[i].item.attachment_id) = k
                /\ cache_file.data[k].md5 = calculate_md5(prev.log[i].bytes)

\* ------------------------------------------------------------- C14
\* The lines of the first n entries of the catalog for a type, in the order
\* of the catalog.
RECURSIVE LinesInCatalogOrder(_, _)
LinesInCatalogOrder(t, n) ==
    IF n = 0
    THEN <<>>
    ELSE IF Contributes(n) /\ Sing(n) = t
         THEN Append(LinesInCatalogOrder(t, n - 1),
                     HashLine(HashAtHand(n), ItemAt(n).id))
         ELSE LinesInCatalogOrder(t, n - 1)

\* C14: the hash lines of a type bucket are the lines of its contributing
\* entries in the order the catalog iterates them, and so are the lines of
\* the hash file a finished run wrote.
C14_HashLinesInCatalogOrder ==
    /\ \A t \in DOMAIN hash_buckets :
          hash_buckets[t] = LinesInCatalogOrder(t, Len(log))
    /\ pc = "done" =>
          \A t \in wrote.hash :
              /\ t \in DOMAIN hash_files
              /\ hash_files[t] = LinesInCatalogOrder(t, Len(log))

\* A finished run wrote a hash file of two different lines, the first
\* entry's before the second's.
C14_Witness ==
    /\ pc = "done"
    /\ Len(log) = 2
    /\ Sing(1) = Sing(2)
    /\ Sing(1) \in wrote.hash
    /\ Len(hash_files[Sing(1)]) = 2
    /\ hash_files[Sing(1)][1] # hash_files[Sing(1)][2]
    /\ hash_files[Sing(1)][1] = HashLine(HashAtHand(1), ItemAt(1).id)

\* ------------------------------------------------------------- C15
\* C15: the types with a JSON bucket are the types with a hash-line list,
\* every JSON bucket holds an entry, and a finished run has written, for
\* every such type, the JSON file with the bucket and the hash file with the
\* lines, empty when there are none.
C15_BucketsAndFilesPaired ==
    /\ DOMAIN type_buckets = DOMAIN hash_buckets
    /\ \A t \in DOMAIN type_buckets : Len(type_buckets[t]) >= 1
    /\ pc = "done" =>
          /\ wrote.json = DOMAIN type_buckets
          /\ wrote.hash = DOMAIN type_buckets
          /\ \A t \in DOMAIN type_buckets :
                /\ t \in DOMAIN json_files
                /\ t \in DOMAIN hash_files
                /\ json_files[t] = type_buckets[t]
                /\ hash_files[t] = hash_buckets[t]

\* A second run wrote an empty hash file over one that had a line.
C15_Witness ==
    /\ pc = "done"
    /\ \E t \in wrote.hash :
          /\ hash_files[t] = <<>>
          /\ t \in DOMAIN prev.hash
          /\ prev.hash[t] # <<>>
          /\ json_files[t] # <<>>

\* ------------------------------------------------------------- C16
\* The record a successful download of entry i is to store.
Stored(i) ==
    [timestamp |-> ItemAt(i).timestamp,
     md5 |-> calculate_md5(log[i].bytes),
     id |-> ItemAt(i).id]

\* Entry j comes after the downloaded entry i, has its attachment id, and no
\* entry between them downloaded that attachment id.
NextUnderSameId(i, j) ==
    /\ i < j
    /\ log[i].exit = "downloaded"
    /\ log[j].valid
    /\ AttKey(i) = AttKey(j)
    /\ \A k \in DOMAIN log :
          (i < k /\ k < j /\ AttKey(k) = AttKey(i)) => log[k].exit # "downloaded"

\* C16: the last successful download of an attachment id in the run has its
\* timestamp, digest and mod id in the cache under that id; a later entry of
\* the run with that attachment id finds this record: it is a hit without a
\* request when its timestamp is the same, and a miss with one request
\* otherwise.
C16_DownloadStoredAndVisible ==
    \A i \in DOMAIN log :
        log[i].exit = "downloaded" =>
            /\ (\A k \in DOMAIN log :
                    (k > i /\ AttKey(k) = AttKey(i)) => log[k].exit # "downloaded")
                => Get(status_cache, AttKey(i)) = Stored(i)
            /\ \A j \in DOMAIN log :
                  NextUnderSameId(i, j) =>
                      /\ log[j].seen = Stored(i)
                      /\ IF ItemAt(j).timestamp = ItemAt(i).timestamp
                         THEN log[j].exit = "hit" /\ log[j].calls = 0
                         ELSE /\ log[j].exit # "hit"
                              /\ log[j].exit = "pending" \/ log[j].calls = 1

\* A first run downloaded for its first entry and hit for its second; the
\* first entry was re-uploaded, and the second run downloaded for both, the
\* second download overwriting the record of the first.
C16_Witness ==
    /\ run = 2
    /\ Len(log) = 2
    /\ Len(prev.log) = 2
    /\ prev.log[1].exit = "downloaded"
    /\ prev.log[2].exit = "hit"
    /\ log[1].exit = "downloaded"
    /\ log[2].exit = "downloaded"
    /\ AttKey(1) = AttKey(2)
    /\ log[1].bytes # log[2].bytes
    /\ log[2].seen = Stored(1)
    /\ status_cache[AttKey(2)] = Stored(2)

\* ------------------------------------------------------------- C17
\* C17: the step that ends an entry with a hit or a successful download
\* appends to the entry's bucket the line of the hash and of the entry's own
\* mod id, and a hit leaves the cache mapping, the record's id with it, as
\* it was.
C17_LineNamesOwnModId ==
    [][ ( /\ pc \in {"loop", "hash"}
          /\ idx' = idx + 1
          /\ idx \in DOMAIN log'
          /\ log'[idx].exit \in {"hit", "downloaded"} )
        => LET t == Sing(idx)
               before == IF t \in DOMAIN hash_buckets THEN hash_buckets[t] ELSE <<>>
               hash == IF log'[idx].exit = "hit"
                       THEN log'[idx].seen.md5
                       ELSE calculate_md5(log[idx].bytes)
           IN  /\ hash_buckets'[t] = Append(before, << hash, ItemAt(idx).id.s >>)
               /\ log'[idx].exit = "hit" => status_cache' = status_cache ]_vars

\* A hit on a record stored under another mod id: the line names the entry's
\* id, the record keeps the other.
C17_Witness ==
    \E i \in DOMAIN log :
        /\ log[i].exit = "hit"
        /\ log[i].seen.id # ItemAt(i).id
        /\ idx = i + 1
        /\ hash_buckets[Sing(i)][Len(hash_buckets[Sing(i)])] =
              << log[i].seen.md5, ItemAt(i).id.s >>
        /\ status_cache[AttKey(i)].id = log[i].seen.id

\* ------------------------------------------------ type names on their own
\* The type names normalized on their own: every name of "p" and "s" up to
\* MaxNameLen characters.
Letters == {"p", "s"}
Names == UNION { [1..n -> Letters] : n \in 0..MaxNameLen }

InitNames ==
    /\ remote = <<>>
    /\ changed = FALSE
    /\ cache_file = [exists |-> FALSE, data |-> EmptyDict]
    /\ json_files = EmptyDict
    /\ hash_files = EmptyDict
    /\ zip_files = EmptyDict
    /\ pc = "idle"
    /\ run = 0
    /\ mod_list = <<>>
    /\ status_cache = EmptyDict
    /\ type_buckets = EmptyDict
    /\ hash_buckets = EmptyDict
    /\ updates_made = FALSE
    /\ idx = 1
    /\ log = <<>>
    /\ wrote = NoWrites
    /\ prev = NoPrev
    /\ singular = EmptyDict

\* Lines 66-69 for one more type name: singular_type =
\* get_singular_name(mod_type), and its two buckets are there from here on.
Normalize ==
    /\ Cardinality(DOMAIN singular) < MaxNormalized
    /\ \E type_name \in Names \ DOMAIN singular :
          LET singular_type == get_singular_name(type_name) IN
          /\ singular' = Put(singular, type_name, singular_type)
          /\ type_buckets' = InitBucket(type_buckets, singular_type)
          /\ hash_buckets' = InitBucket(hash_buckets, singular_type)
    /\ UNCHANGED << remote, changed, cache_file, json_files, hash_files,
                    zip_files, pc, run, mod_list, status_cache, updates_made,
                    idx, log, wrote, prev >>

NextNames == Normalize

NameSpec == InitNames /\ [][NextNames]_vars

\* ------------------------------------------------------------- C18
EndsInS(name) == Len(name) > 0 /\ name[Len(name)] = "s"

\* A name that ends in "s" is its singular name and an "s"; another name is
\* its own singular name; and the singular name is the name of its bucket.
OneTrailingSDropped ==
    /\ \A name \in DOMAIN singular :
          /\ IF EndsInS(name)
             THEN singular[name] \o << "s" >> = name
             ELSE singular[name] = name
          /\ singular[name] \in DOMAIN type_buckets
          /\ singular[name] \in DOMAIN hash_buckets
    /\ DOMAIN type_buckets = Range(singular)
    /\ DOMAIN hash_buckets = Range(singular)

\* C18 as stated: one trailing "s" is dropped, and two names that differ only
\* by one trailing "s" have one bucket.
C18_Original ==
    /\ OneTrailingSDropped
    /\ \A name \in DOMAIN singular :
          (name \o << "s" >>) \in DOMAIN singular
              => singular[name \o << "s" >>] = singular[name]

\* C18 amended: one trailing "s" is dropped, and two names that differ only
\* by one trailing "s" have one bucket when the shorter one does not itself
\* end in "s".
C18_SingularName ==
    /\ OneTrailingSDropped
    /\ \A name \in DOMAIN singular :
          ( /\ ~EndsInS(name)
            /\ (name \o << "s" >>) \in DOMAIN singular )
              => singular[name \o << "s" >>] = singular[name]

\* "p" and "ps" have the one bucket "p"; "ss" has "s", whose own singular
\* name is another one: normalizing twice is not normalizing once.
C18_Witness ==
    /\ DOMAIN singular = { <<"p">>, <<"p", "s">>, <<"s", "s">>, <<"s">> }
    /\ singular[<<"p", "s">>] = <<"p">>
    /\ singular[<<"p">>] = <<"p">>
    /\ DOMAIN type_buckets = { <<"p">>, <<"s">>, <<>> }
    /\ singular[<<"s", "s">>] = <<"s">>
    /\ singular[singular[<<"s", "s">>]] # singular[<<"s", "s">>]

====
